---- MODULE Spec2Model ----
(***************************************************************************)
(* rogcat, src/utils.rs: the device PID resolver (get_pids) and the        *)
(* process membership filter (ProcessFilter).                              *)
(*                                                                         *)
(* Text is modelled as a sequence of one-character strings.  A u32 is      *)
(* modelled as a pair <<hi, lo>> of 16-bit limbs (value hi * 2^16 + lo),   *)
(* so that the full 32-bit width is kept although TLC's integers are       *)
(* 32-bit signed.  Instants and Durations are counted in ticks of          *)
(* 1/TicksPerSec second.                                                   *)
(***************************************************************************)
EXTENDS Integers, Sequences, FiniteSets, TLC

VARIABLES
    packages,       \* ProcessFilter.packages
    valid_pids,     \* ProcessFilter.valid_pids
    last_update,    \* ProcessFilter.last_update
    clock,          \* the monotonic clock read by Instant::now()
    arg,            \* pid_str of the last should_skip_process call
    ret,            \* value returned by the last should_skip_process call
    outcome,        \* "returned" if the last call returned a value, "error"
                    \* if it ended in an error; "none" before the first call
    invocations,    \* number of get_pids invocations made by the last call
    refresh,        \* "none", "ok" or "err": what the last call's refresh did
    call_seq,       \* sequence number of the last call, modulo 2
    first_done,     \* a call has got past the early returns
    old_pids,       \* valid_pids as it was when the last call was entered
    last_ok_pids,   \* set returned by the filter's last successful get_pids
    last_ok_at,     \* clock of the filter's last successful get_pids, or -1
    last_try_at,    \* clock of the filter's last get_pids invocation, or -1
    resolver_arg,   \* packages passed to the filter's last get_pids
    age,            \* elapsed time at the last call's staleness check against
                    \* TTL: "lt", "eq", "gt"; "none" if it was not reached
    res             \* outcome of the last direct call of get_pids

vars == <<packages, valid_pids, last_update, clock, arg, ret, invocations,
          refresh, call_seq, first_done, old_pids, last_ok_pids, last_ok_at,
          last_try_at, resolver_arg, age, outcome, res>>

filterVars == <<packages, valid_pids, last_update, clock, arg, ret,
                invocations, refresh, call_seq, first_done, old_pids,
                last_ok_pids, last_ok_at, last_try_at, resolver_arg, age,
                outcome>>

----------------------------------------------------------------------------
(* Bounds of the model *)

TicksPerSec == 2
MaxClock == 16
MaxNewAt == 6
MaxOutLen == 3

(* Program constants *)

TTL_SECS == 2
MARGIN_SECS == 1
LIMB == 65536

TTL == TTL_SECS * TicksPerSec
MARGIN == MARGIN_SECS * TicksPerSec

----------------------------------------------------------------------------
(* u32 values and str::parse::<u32> *)

Pid(n) == <<n \div LIMB, n % LIMB>>

Digits == {"0", "1", "2", "3", "4", "5", "6", "7", "8", "9"}

DigitVal(c) ==
    CASE c = "0" -> 0 [] c = "1" -> 1 [] c = "2" -> 2 [] c = "3" -> 3
      [] c = "4" -> 4 [] c = "5" -> 5 [] c = "6" -> 6 [] c = "7" -> 7
      [] c = "8" -> 8 [] c = "9" -> 9

ParseErr == [ok |-> FALSE, val |-> <<0, 0>>]

\* Mutant of MulAdd: wrapping arithmetic instead of checked arithmetic.
MulAdd_Wrapping(acc, d) ==
    LET lo == acc[2] * 10 + d
        hi == acc[1] * 10 + (lo \div LIMB)
    IN  [ok |-> TRUE, val |-> <<hi % LIMB, lo % LIMB>>]

\* acc * 10 + d with the overflow check of checked_mul / checked_add
MulAdd(acc, d) ==
    LET lo == acc[2] * 10 + d
        hi == acc[1] * 10 + (lo \div LIMB)
    IN  IF hi >= LIMB THEN ParseErr
        ELSE [ok |-> TRUE, val |-> <<hi, lo % LIMB>>]

RECURSIVE ParseDigits(_, _)
ParseDigits(s, acc) ==
    IF s = <<>> THEN [ok |-> TRUE, val |-> acc]
    ELSE IF Head(s) \notin Digits THEN ParseErr
    ELSE LET st == MulAdd(acc, DigitVal(Head(s)))
         IN  IF st.ok THEN ParseDigits(Tail(s), st.val) ELSE ParseErr

\* Mutant of ParseU32: leading spaces are trimmed before parsing.
RECURSIVE ParseU32_Trimmed(_)
ParseU32_Trimmed(s) ==
    IF s = <<>> THEN ParseErr
    ELSE IF Head(s) = " " THEN ParseU32_Trimmed(Tail(s))
    ELSE IF Len(s) = 1 /\ Head(s) \in {"+", "-"} THEN ParseErr
    ELSE IF Head(s) = "+" THEN ParseDigits(Tail(s), <<0, 0>>)
    ELSE ParseDigits(s, <<0, 0>>)

ParseU32(s) ==
    IF s = <<>> THEN ParseErr
    ELSE IF Len(s) = 1 /\ Head(s) \in {"+", "-"} THEN ParseErr
    ELSE IF Head(s) = "+" THEN ParseDigits(Tail(s), <<0, 0>>)
    ELSE ParseDigits(s, <<0, 0>>)

----------------------------------------------------------------------------
(* get_pids *)

\* String::from_utf8_lossy: a byte that is not valid UTF-8 ("xFF") becomes
\* U+FFFD; every other byte of the model is ASCII and is kept.
Utf8Lossy(bytes) ==
    [i \in 1..Len(bytes) |-> IF bytes[i] = "xFF" THEN "uFFFD" ELSE bytes[i]]

IsWhitespace(c) == c \in {" ", "\n", "\t", "\r"}

RECURSIVE SplitWhitespace(_, _, _)
SplitWhitespace(s, cur, acc) ==
    IF s = <<>> THEN (IF cur = <<>> THEN acc ELSE Append(acc, cur))
    ELSE IF IsWhitespace(Head(s))
         THEN SplitWhitespace(Tail(s), <<>>,
                              IF cur = <<>> THEN acc ELSE Append(acc, cur))
         ELSE SplitWhitespace(Tail(s), Append(cur, Head(s)), acc)

\* Mutant of InsertParsed: the loop ends at the first malformed word.
RECURSIVE InsertParsed_StopAtBad(_, _)
InsertParsed_StopAtBad(words, pids) ==
    IF words = <<>> THEN pids
    ELSE LET p == ParseU32(Head(words))
         IN  IF p.ok THEN InsertParsed_StopAtBad(Tail(words), pids \cup {p.val})
             ELSE pids

RECURSIVE InsertParsed(_, _)
InsertParsed(words, pids) ==
    IF words = <<>> THEN pids
    ELSE LET p == ParseU32(Head(words))
         IN  InsertParsed(Tail(words),
                          IF p.ok THEN pids \cup {p.val} ELSE pids)

ParsePids(stdout) == InsertParsed(SplitWhitespace(stdout, <<>>, <<>>), {})

\* adb(): which_in("adb", PATH, current_dir()?)
adb(env) == env.cwd_ok /\ env.adb_found

\* Mutant of get_pids: the empty-input short circuit is missing.
get_pids_NoShortCircuit(pkgs, env) ==
    IF ~adb(env)
    THEN [ok |-> FALSE, pids |-> {}, lookups |-> 1, spawns |-> 0,
          argv |-> <<>>]
    ELSE IF ~env.run_ok
    THEN [ok |-> FALSE, pids |-> {}, lookups |-> 1, spawns |-> 1,
          argv |-> <<"shell", "pidof">> \o pkgs]
    ELSE [ok |-> TRUE, pids |-> ParsePids(Utf8Lossy(env.stdout)),
          lookups |-> 1, spawns |-> 1, argv |-> <<"shell", "pidof">> \o pkgs]

\* env: what the environment does if it is asked: is the current directory
\* readable, is adb on the PATH, can the process be run (counted in spawns,
\* the calls of Command::output), what does it print.
get_pids(pkgs, env) ==
    IF pkgs = <<>>
    THEN [ok |-> TRUE, pids |-> {}, lookups |-> 0, spawns |-> 0,
          argv |-> <<>>]
    ELSE IF ~adb(env)
    THEN [ok |-> FALSE, pids |-> {}, lookups |-> 1, spawns |-> 0,
          argv |-> <<>>]
    ELSE IF ~env.run_ok
    THEN [ok |-> FALSE, pids |-> {}, lookups |-> 1, spawns |-> 1,
          argv |-> <<"shell", "pidof">> \o pkgs]
    ELSE [ok |-> TRUE, pids |-> ParsePids(Utf8Lossy(env.stdout)),
          lookups |-> 1, spawns |-> 1, argv |-> <<"shell", "pidof">> \o pkgs]

----------------------------------------------------------------------------
(* Inputs *)

PackageLists == {<<>>, <<"com.example.app">>, <<"com.example.app", "com.b">>}

\* pid_str arguments: "", "42", "7", "200", "999", "+7", "-7", "x", " 7",
\* "4294967295" (u32::MAX) and "4294967296" (u32::MAX + 1)
Txt42 == <<"4", "2">>
Txt7 == <<"7">>
Txt200 == <<"2", "0", "0">>
Txt999 == <<"9", "9", "9">>
TxtU32Max == <<"4", "2", "9", "4", "9", "6", "7", "2", "9", "5">>
TxtU32Over == <<"4", "2", "9", "4", "9", "6", "7", "2", "9", "6">>

PidTexts ==
    { <<>>, Txt42, Txt7, Txt200, Txt999, <<"+", "7">>, <<"-", "7">>,
      <<"x">>, <<" ", "7">>, TxtU32Max, TxtU32Over }

\* what "adb shell pidof ..." prints: "42", "7", "100 200 300" and
\* "42 91 notanumber 7"
Out42 == <<"4", "2">>
Out7 == <<"7">>
Out100_200_300 == <<"1", "0", "0", " ", "2", "0", "0", " ", "3", "0", "0">>
OutMixed ==
    <<"4", "2", " ", "9", "1", " ", "n", "o", "t", "a", "n", "u", "m", "b",
      "e", "r", " ", "7">>

FilterOutputs == {<<>>, Out42, Out7, Out100_200_300, OutMixed}

NoEnv == [cwd_ok |-> TRUE, adb_found |-> TRUE, run_ok |-> TRUE,
          stdout |-> <<>>]

EnvNoAdb == [NoEnv EXCEPT !.adb_found = FALSE]
EnvNoCwd == [NoEnv EXCEPT !.cwd_ok = FALSE]
EnvNoRun == [NoEnv EXCEPT !.run_ok = FALSE]

FilterEnvs ==
    {EnvNoAdb, EnvNoCwd, EnvNoRun}
        \cup {[NoEnv EXCEPT !.stdout = o] : o \in FilterOutputs}

OutAlphabet == {"4", "2", " ", "\n", "x", "xFF"}

BoundedOutputs == UNION {[1..k -> OutAlphabet] : k \in 0..MaxOutLen}

ResolverEnvs ==
    [cwd_ok : BOOLEAN, adb_found : BOOLEAN, run_ok : BOOLEAN,
     stdout : BoundedOutputs \cup FilterOutputs]

NoRes == [pkgs |-> <<>>, env |-> NoEnv, called |-> FALSE,
          out |-> get_pids(<<>>, NoEnv)]

\* ParseU32 and get_pids tabulated over the inputs of the filter's actions
ParseTable == [s \in PidTexts |-> ParseU32(s)]

PidsTable ==
    [pk \in PackageLists, e \in FilterEnvs \cup {NoEnv} |-> get_pids(pk, e)]

----------------------------------------------------------------------------
(* ProcessFilter *)

\* Instant::checked_sub: None when the result is before the first Instant
\* the platform can represent (tick 0 of the model's clock).
CheckedSub(t, d) ==
    IF t - d >= 0 THEN [some |-> TRUE, at |-> t - d]
    ELSE [some |-> FALSE, at |-> 0]

\* ProcessFilter::new: the value given to last_update at time now
NewLastUpdate(now) ==
    LET past == CheckedSub(now, TTL + MARGIN)
    IN  IF past.some THEN past.at ELSE now

\* Instant::duration_since saturates to zero
DurationSince(now, earlier) == IF now >= earlier THEN now - earlier ELSE 0

\* Mutant of EarlyReturn: the test of the package list is missing.
EarlyReturn_NoPackagesTest(pkgs, pid_str) == pid_str = <<>>

EarlyReturn(pkgs, pid_str) == pkgs = <<>> \/ pid_str = <<>>

\* Mutants of IsStale: the boundary is inclusive; the boundary is late.
IsStale_Inclusive(now, updated) == DurationSince(now, updated) >= TTL

IsStale_Late(now, updated) == DurationSince(now, updated) > TTL + MARGIN

IsStale(now, updated) == DurationSince(now, updated) > TTL

\* Mutant of RefreshedPids: the new set is merged into the old one.
RefreshedPids_Merge(old, r) == IF r.ok THEN old \cup r.pids ELSE old

RefreshedPids(old, r) == IF r.ok THEN r.pids ELSE old

\* Mutant of RefreshedLastUpdate: assigned only when get_pids succeeded.
RefreshedLastUpdate_OnSuccess(old, r, now) == IF r.ok THEN now ELSE old

\* last_update is assigned after the if-let, whatever get_pids returned
RefreshedLastUpdate(old, r, now) == now

\* Mutant of Decision: the test is inverted.
Decision_Inverted(pids, pid) == pid \in pids

\* Mutant of Decision: an empty set filters nothing.
Decision_EmptyAllowsAll(pids, pid) == pids # {} /\ pid \notin pids

Decision(pids, pid) == pid \notin pids

\* Mutant of ResolverArg: only the first package is passed.
ResolverArg_FirstOnly(pkgs) == SubSeq(pkgs, 1, 1)

\* the argument of get_pids: &self.packages
ResolverArg(pkgs) == pkgs

\* Mutant of CallOutcome: the Err of get_pids is propagated to the caller.
CallOutcome_Propagates(r) == IF r.ok THEN "returned" ELSE "error"

\* if let Ok(pids) = get_pids(..): an Err is dropped and the call goes on to
\* its final expression
CallOutcome(r) == "returned"

\* the elapsed time compared with TTL
Age(elapsed) ==
    IF elapsed < TTL THEN "lt" ELSE IF elapsed = TTL THEN "eq" ELSE "gt"

Returns(pid_str, value, n, what) ==
    /\ arg' = pid_str
    /\ ret' = value
    /\ invocations' = n
    /\ refresh' = what
    /\ call_seq' = 1 - call_seq
    /\ old_pids' = valid_pids

\* ProcessFilter::should_skip_process(pid_str); env is what the environment
\* answers if get_pids is invoked by this call.
should_skip_process(pid_str, env) ==
    LET p == ParseTable[pid_str]
        now == clock
    IN  /\ UNCHANGED <<packages, clock, res>>
        /\ IF EarlyReturn(packages, pid_str) \/ ~p.ok
           THEN /\ Returns(pid_str, FALSE, 0, "none")
                /\ age' = "none"
                /\ outcome' = "returned"
                /\ UNCHANGED <<valid_pids, last_update, first_done,
                               last_ok_pids, last_ok_at, last_try_at,
                               resolver_arg>>
           ELSE IF IsStale(now, last_update)
           THEN LET r == PidsTable[ResolverArg(packages), env]
                IN  /\ valid_pids' = RefreshedPids(valid_pids, r)
                    /\ last_update' = RefreshedLastUpdate(last_update, r, now)
                    /\ last_ok_pids' = IF r.ok THEN r.pids ELSE last_ok_pids
                    /\ last_ok_at' = IF r.ok THEN now ELSE last_ok_at
                    /\ last_try_at' = now
                    /\ resolver_arg' = ResolverArg(packages)
                    /\ first_done' = TRUE
                    /\ age' = Age(DurationSince(now, last_update))
                    /\ outcome' = CallOutcome(r)
                    /\ Returns(pid_str, Decision(valid_pids', p.val), 1,
                               IF r.ok THEN "ok" ELSE "err")
           ELSE /\ UNCHANGED <<valid_pids, last_update, last_ok_pids,
                               last_ok_at, last_try_at, resolver_arg>>
                /\ first_done' = TRUE
                /\ age' = Age(DurationSince(now, last_update))
                /\ outcome' = "returned"
                /\ Returns(pid_str, Decision(valid_pids, p.val), 0, "none")

----------------------------------------------------------------------------
(* The filter driven by its caller, with time passing *)

Init ==
    /\ packages \in PackageLists
    /\ clock \in 0..MaxNewAt
    /\ valid_pids = {}
    /\ last_update = NewLastUpdate(clock)
    /\ arg = <<>>
    /\ ret = FALSE
    /\ invocations = 0
    /\ refresh = "none"
    /\ call_seq = 0
    /\ first_done = FALSE
    /\ old_pids = {}
    /\ last_ok_pids = {}
    /\ last_ok_at = -1
    /\ last_try_at = -1
    /\ resolver_arg = <<>>
    /\ age = "none"
    /\ outcome = "none"
    /\ res = NoRes

Tick ==
    /\ clock < MaxClock
    /\ clock' = clock + 1
    /\ UNCHANGED <<packages, valid_pids, last_update, arg, ret, invocations,
                   refresh, call_seq, first_done, old_pids, last_ok_pids,
                   last_ok_at, last_try_at, resolver_arg, age, outcome, res>>

NeedsEnv(pid_str) ==
    /\ ~EarlyReturn(packages, pid_str)
    /\ ParseTable[pid_str].ok
    /\ IsStale(clock, last_update)

ShouldSkipRefreshing ==
    \E pid_str \in PidTexts, env \in FilterEnvs :
        NeedsEnv(pid_str) /\ should_skip_process(pid_str, env)

ShouldSkipCached ==
    \E pid_str \in PidTexts :
        ~NeedsEnv(pid_str) /\ should_skip_process(pid_str, NoEnv)

Next == Tick \/ ShouldSkipRefreshing \/ ShouldSkipCached

Spec == Init /\ [][Next]_vars

----------------------------------------------------------------------------
(* get_pids called directly *)

\* The inputs of the call are drawn here; CallGetPids applies get_pids.
InitResolver ==
    /\ packages = <<>>
    /\ clock = 0
    /\ valid_pids = {}
    /\ last_update = NewLastUpdate(clock)
    /\ arg = <<>>
    /\ ret = FALSE
    /\ invocations = 0
    /\ refresh = "none"
    /\ call_seq = 0
    /\ first_done = FALSE
    /\ old_pids = {}
    /\ last_ok_pids = {}
    /\ last_ok_at = -1
    /\ last_try_at = -1
    /\ resolver_arg = <<>>
    /\ age = "none"
    /\ outcome = "none"
    /\ \E pkgs \in PackageLists, env \in ResolverEnvs :
           res = [NoRes EXCEPT !.pkgs = pkgs, !.env = env]

CallGetPids ==
    /\ ~res.called
    /\ res' = [res EXCEPT !.called = TRUE, !.out = get_pids(res.pkgs, res.env)]
    /\ UNCHANGED filterVars

NextResolver == CallGetPids

SpecResolver == InitResolver /\ [][NextResolver]_vars

----------------------------------------------------------------------------
(* Vocabulary of the properties *)

\* The step is a should_skip_process call.
IsCall == call_seq' # call_seq

\* s is the decimal numeral of an unsigned 32-bit integer, as the text reads
\* (an optional "+", at least one digit, nothing else, value <= 4294967295),
\* decided on the digits without computing the value.
RECURSIVE StripZeros(_)
StripZeros(d) ==
    IF Len(d) > 1 /\ Head(d) = "0" THEN StripZeros(Tail(d)) ELSE d

LexLe(a, b) ==
    \/ a = b
    \/ \E i \in 1..Len(a) :
          /\ \A j \in 1..(i - 1) : a[j] = b[j]
          /\ DigitVal(a[i]) < DigitVal(b[i])

IsU32Text(s) ==
    LET d == IF s # <<>> /\ Head(s) = "+" THEN Tail(s) ELSE s
        z == StripZeros(d)
    IN  /\ d # <<>>
        /\ \A i \in 1..Len(d) : d[i] \in Digits
        /\ \/ Len(z) < Len(TxtU32Max)
           \/ Len(z) = Len(TxtU32Max) /\ LexLe(z, TxtU32Max)

\* The tokens of a text: its maximal runs of characters that are not
\* whitespace, as pairs of positions.
Tokens(text) ==
    {ij \in (1..Len(text)) \X (1..Len(text)) :
        /\ ij[1] <= ij[2]
        /\ \A k \in ij[1]..ij[2] : ~IsWhitespace(text[k])
        /\ ij[1] = 1 \/ IsWhitespace(text[ij[1] - 1])
        /\ ij[2] = Len(text) \/ IsWhitespace(text[ij[2] + 1])}

\* The values of the tokens of a text that are u32 numerals.
TokenValues(text) ==
    {ParseU32(SubSeq(text, ij[1], ij[2])).val :
        ij \in {t \in Tokens(text) : IsU32Text(SubSeq(text, t[1], t[2]))}}

----------------------------------------------------------------------------
(* Properties *)

\* C1: if the refresh attempted inside a should_skip_process call fails,
\* then after the call valid_pids and last_update have the values they had
\* before it, and the value returned is computed against the old valid_pids.
C1_FailedRefreshKeepsCache ==
    [][(IsCall /\ refresh' = "err") =>
          /\ valid_pids' = valid_pids
          /\ last_update' = last_update
          /\ ret' = (ParseU32(arg').val \notin valid_pids)]_vars

\* C2: for a filter with a non-empty package list, whatever the clock was at
\* construction, the first call with a parseable PID invokes get_pids
\* exactly once, however soon after construction it is made.
C2_FirstCallRefreshes ==
    [][(IsCall /\ ~first_done /\ first_done') => invocations' = 1]_vars

\* C3: with an empty package list every call returns false and invokes
\* get_pids zero times, and no step changes valid_pids or last_update.
C3_EmptyPackagesNeverSkip ==
    [][packages = <<>> =>
          /\ IsCall => (ret' = FALSE /\ invocations' = 0)
          /\ valid_pids' = valid_pids
          /\ last_update' = last_update]_vars

\* C3 witness: an empty-package filter whose cache is stale has been called
\* with a parseable PID.
C3_Witness ==
    /\ packages = <<>>
    /\ call_seq = 1
    /\ arg = Txt42
    /\ IsStale(clock, last_update)

\* C4: a call whose pid_str is empty or is not the numeral of a u32 returns
\* false, whatever the package list and the state of the cache.
C4_UnparseableNeverSkipped == ~IsU32Text(arg) => ret = FALSE

\* C4 witness: "4294967296" has been passed to a filter with packages, a
\* non-empty valid_pids and a stale cache.
C4_Witness ==
    /\ packages # <<>>
    /\ call_seq = 1
    /\ arg = TxtU32Over
    /\ valid_pids # {}
    /\ IsStale(clock, last_update)

\* C5: a call made no more than TTL after the filter's last successful
\* refresh invokes get_pids zero times.
C5_FreshCacheNoRefresh ==
    [][(IsCall /\ last_ok_at >= 0 /\ clock - last_ok_at <= TTL) =>
          invocations' = 0]_vars

\* C5 witness: the last call got past the early returns, was made within TTL
\* of a successful refresh and after it, and did not refresh.
C5_Witness ==
    /\ packages # <<>>
    /\ IsU32Text(arg)
    /\ refresh = "none"
    /\ last_ok_at >= 0
    /\ last_update = last_ok_at
    /\ clock = last_ok_at + TTL

\* C6: a call with a non-empty package list and a parseable PID, made when
\* more than TTL has elapsed since last_update, invokes get_pids exactly once.
C6_StaleCacheOneRefresh ==
    [][(IsCall /\ packages # <<>> /\ IsU32Text(arg')
            /\ clock - last_update > TTL) => invocations' = 1]_vars

\* C6 witness: a call has refreshed a cache that an earlier refresh had
\* filled.
C6_Witness ==
    /\ invocations = 1
    /\ refresh = "ok"
    /\ old_pids # {}
    /\ last_update = clock

\* C7: with a non-empty package list and a pid_str that parses to p, the
\* call returns true iff p is not in valid_pids as it stands after the call;
\* with valid_pids = {100, 200, 300}, "200" gives false and "999" gives true.
C7_SkipIffNotMember ==
    (packages # <<>> /\ IsU32Text(arg)) =>
        /\ ret = (ParseU32(arg).val \notin valid_pids)
        /\ valid_pids = {Pid(100), Pid(200), Pid(300)} =>
              /\ arg = Txt200 => ret = FALSE
              /\ arg = Txt999 => ret = TRUE

\* C7 witness: the call that refreshed the empty set to {100, 200, 300} was
\* made with "200" and returned false.
C7_Witness ==
    /\ packages # <<>>
    /\ refresh = "ok"
    /\ old_pids = {}
    /\ valid_pids = {Pid(100), Pid(200), Pid(300)}
    /\ arg = Txt200
    /\ ret = FALSE

\* C8: valid_pids is the set returned by the filter's last successful
\* get_pids (empty if there was none); after {42} is replaced by {7}, "42" is
\* skipped and "7" is not.
C8_WholesaleReplace ==
    /\ valid_pids = last_ok_pids
    /\ (packages # <<>> /\ refresh = "ok" /\ old_pids = {Pid(42)}
            /\ last_ok_pids = {Pid(7)}) =>
          /\ arg = Txt42 => ret = TRUE
          /\ arg = Txt7 => ret = FALSE

\* C8 witness: the call that replaced {42} by {7} was made with "42" and
\* returned true.
C8_Witness ==
    /\ refresh = "ok"
    /\ old_pids = {Pid(42)}
    /\ valid_pids = {Pid(7)}
    /\ arg = Txt42
    /\ ret = TRUE

\* C9: when the query has run, get_pids succeeds and returns exactly the
\* values of the tokens of the output that are u32 numerals;
\* "42 91 notanumber 7" gives {42, 91, 7}.
C9_ResolverParsesTokens ==
    (res.called /\ res.pkgs # <<>> /\ adb(res.env) /\ res.env.run_ok) =>
        /\ res.out.ok
        /\ res.out.pids = TokenValues(Utf8Lossy(res.env.stdout))
        /\ res.env.stdout = OutMixed =>
              res.out.pids = {Pid(42), Pid(91), Pid(7)}

\* C9 witness: get_pids has returned {42, 91, 7} for "42 91 notanumber 7".
C9_Witness ==
    /\ res.called
    /\ res.pkgs # <<>>
    /\ res.env.stdout = OutMixed
    /\ res.out.ok
    /\ res.out.pids = {Pid(42), Pid(91), Pid(7)}

\* C10: get_pids of an empty package sequence returns Ok of the empty set
\* without looking adb up or running it.
C10_EmptyPackagesShortCircuit ==
    (res.called /\ res.pkgs = <<>>) =>
        /\ res.out.ok
        /\ res.out.pids = {}
        /\ res.out.lookups = 0
        /\ res.out.spawns = 0

\* C10 witness: get_pids of an empty sequence has succeeded although adb is
\* not on the PATH.
C10_Witness ==
    /\ res.called
    /\ res.pkgs = <<>>
    /\ ~res.env.adb_found
    /\ res.out.ok

\* C11: every call returns a boolean, also when get_pids fails (adb not
\* found, current directory unreadable, process not run); after a failed
\* refresh the value is the decision against the set kept.
C11_AlwaysReturnsDecision ==
    /\ outcome # "error"
    /\ ret \in BOOLEAN
    /\ (refresh = "err") =>
          /\ outcome = "returned"
          /\ ret = (ParseU32(arg).val \notin valid_pids)

\* C11 witness: a call that followed a failed refresh, with no refresh ever
\* successful, has returned a decision from the cache.
C11_Witness ==
    /\ packages # <<>>
    /\ IsU32Text(arg)
    /\ refresh = "none"
    /\ age # "none"
    /\ last_ok_at = -1
    /\ last_try_at >= 0
    /\ outcome = "returned"

\* C12: there is no retry backoff: the call (non-empty package list,
\* parseable PID) that follows a call whose refresh failed attempts a refresh
\* again, however short the time since the failed attempt.
C12_RetryAfterFailure ==
    [][(IsCall /\ refresh = "err" /\ packages # <<>> /\ IsU32Text(arg')) =>
          invocations' = 1]_vars

\* C13: two get_pids invocations of a filter are made by calls whose clock
\* readings are more than TTL apart, whether the invocations succeed or fail.
C13_OneRefreshPerTtlWindow ==
    [][(IsCall /\ invocations' >= 1 /\ last_try_at >= 0) =>
          clock - last_try_at > TTL]_vars

\* C13 witness: a refresh has been attempted, and has failed, after an
\* earlier one that filled the cache.
C13_Witness ==
    /\ invocations = 1
    /\ refresh = "err"
    /\ last_try_at = clock
    /\ old_pids # {}
    /\ last_ok_at >= 0

\* C14: a call that reaches the staleness check with elapsed = TTL invokes
\* get_pids zero times, one that reaches it with elapsed > TTL invokes it
\* once, and a step that is not a call changes neither valid_pids nor
\* last_update nor the number of invocations.
C14_BoundaryInclusiveLazy ==
    [][/\ IsCall => /\ age' \in {"lt", "eq"} => invocations' = 0
                    /\ age' = "gt" => invocations' = 1
                    /\ (packages # <<>> /\ IsU32Text(arg')) =>
                          age' = Age(clock - last_update)
       /\ ~IsCall => /\ valid_pids' = valid_pids
                     /\ last_update' = last_update
                     /\ invocations' = invocations
                     /\ last_try_at' = last_try_at]_vars

\* C14 witness: a call made with elapsed = TTL exactly, after a successful
\* refresh, has answered without a refresh.
C14_Witness ==
    /\ age = "eq"
    /\ invocations = 0
    /\ last_ok_at >= 0
    /\ last_update = last_ok_at

\* C15: no step changes packages, every get_pids invocation of the filter
\* receives packages, and valid_pids and last_update change only in a call.
C15_PackagesFixed ==
    [][/\ packages' = packages
       /\ (IsCall /\ invocations' >= 1) => resolver_arg' = packages
       /\ ~IsCall => (valid_pids' = valid_pids /\ last_update' = last_update)
      ]_vars

\* C15 witness: a filter of two packages has passed both to a get_pids that
\* failed, after one that succeeded.
C15_Witness ==
    /\ Len(packages) = 2
    /\ refresh = "err"
    /\ last_ok_at >= 0
    /\ resolver_arg = packages

\* C16: a call whose pid_str is empty or unparseable invokes get_pids zero
\* times and leaves valid_pids and last_update unchanged, also when the cache
\* is stale; a stale cache stays stale over every step that is not a call
\* with a parseable PID.
C16_UnparseableSkipsRefresh ==
    [][/\ (IsCall /\ ~IsU32Text(arg')) =>
             /\ invocations' = 0
             /\ valid_pids' = valid_pids
             /\ last_update' = last_update
       /\ (IsStale(clock, last_update) /\ ~(IsCall /\ IsU32Text(arg'))) =>
             IsStale(clock', last_update')]_vars

\* C16 witness: " 7" has been passed to a filter with packages whose cache,
\* filled by an earlier refresh, is stale.
C16_Witness ==
    /\ packages # <<>>
    /\ arg = <<" ", "7">>
    /\ age = "none"
    /\ invocations = 0
    /\ valid_pids # {}
    /\ IsStale(clock, last_update)

\* C17: while no refresh of a filter with a non-empty package list has
\* succeeded, valid_pids is empty and a call with a parseable PID returns
\* true.
C17_NoSuccessSkipsAll ==
    (packages # <<>> /\ last_ok_at = -1) =>
        /\ valid_pids = {}
        /\ IsU32Text(arg) => ret = TRUE

\* C17 witness: "42" has been skipped by a call whose refresh failed, no
\* refresh having succeeded.
C17_Witness ==
    /\ packages # <<>>
    /\ last_ok_at = -1
    /\ refresh = "err"
    /\ arg = Txt42
    /\ ret = TRUE

====
